---- MODULE Spec2Model ----
(***************************************************************************)
(* A model of src/js/frame-animator.js: one FrameAnimator session, the     *)
(* host's animation-frame queue, the image loads started by init(), and    *)
(* the click handler that initAll() installs.                              *)
(*                                                                         *)
(* Every handler of the source runs to completion on the single JS thread, *)
(* so each is one action.  A promise continuation runs in the microtask    *)
(* checkpoint of the image event that resolved it, before any other event, *)
(* so it belongs to that event's action.                                   *)
(***************************************************************************)
EXTENDS Integers, FiniteSets, Sequences, TLC

\* ------------------------------------------------------------------ bounds

\* frameCount is drawn from 1..MaxFrames.
MaxFrames == 3

\* `const batchSize = 45` in loadAllFrames, scaled down so that a frame set of
\* at most MaxFrames frames still needs more than one batch.
batchSize == 2

\* 1000 / this.fps, in model time units.
FrameInterval == 2

\* At most MaxPending animation-frame callbacks are ever registered at once:
\* a draw is allowed to throw only while fewer than MaxPending are registered.
MaxPending == 2

\* Time since lastTime is followed up to 2.5 frame intervals.
MaxDelta == 2 * FrameInterval + 1

\* `animator.playFromFrame(28)` in the click handler.
ClickStartFrame == 28

\* Arguments given to playFromFrame by a direct caller: one below the range
\* of indices, one inside it (for frameCount > 1) and one above it.
StartFrames == {-1, 1, MaxFrames + 1}

\* `null` for animationId (a real handle is a positive integer).
NoId == 0

\* No frame (where an index of a drawn frame is expected).
Blank == -1

Max(a, b) == IF a >= b THEN a ELSE b

Min(a, b) == IF a <= b THEN a ELSE b

\* ------------------------------------------------------------------- state

VARIABLES
    \* options, fixed by the constructor
    frameCount, loop, autoplay, playOnce,
    \* fields of the FrameAnimator
    images,          \* images[i]: slot i (frame number i+1) holds an image
    currentFrame,
    isPlaying,
    animationId,
    hasError,
    hasPlayed,
    loadedCount,
    isLoading,
    originalWidth,
    originalHeight,
    elapsed,         \* the current time minus this.lastTime
    \* the host
    canvas,          \* this.canvas: its width and height attributes
    container,       \* canvas.parentElement: clientWidth and clientHeight
    pending,         \* handles of the registered animation-frame callbacks
    \* init() / loadAllFrames()
    phase,           \* "first", "batches", "loaded" or "failed"
    batch,           \* the `batch` loop variable of loadAllFrames
    inflight,        \* frame numbers whose loadImage() has not settled
    progress,        \* numerator of the last updateProgress() call
    failed,          \* frame numbers whose loadImage() has rejected
    errorCount,      \* number of error() calls
    errorFrame,      \* frame number in the message given to error(), or 0
    \* history: the last handler that ran, and the state it started from
    last

cfg == <<frameCount, loop, autoplay, playOnce>>

vars == <<frameCount, loop, autoplay, playOnce, images, currentFrame, isPlaying,
          animationId, hasError, hasPlayed, loadedCount, isLoading,
          originalWidth, originalHeight, elapsed, canvas, container, pending,
          phase, batch, inflight, progress, failed, errorCount, errorFrame,
          last>>

\* Natural size of the first frame.
NaturalWidth == 800

NaturalHeight == 400

\* Size of the canvas handed to the constructor: a canvas element without
\* width and height attributes is 300 by 150.
CanvasSize0 == [width |-> 300, height |-> 150]

\* Client size of the container when the animator is constructed.
ContainerSize0 == [clientWidth |-> 400, clientHeight |-> 300]

\* Client sizes the container takes: one where the scale is computed without
\* rounding, one where a product is not a whole number, one where the
\* product is whole but the quotient is not a binary fraction, one where the
\* height limits the scale, and a collapsed container.
ContainerSizes ==
    {ContainerSize0,
     [clientWidth |-> 401, clientHeight |-> 300],
     [clientWidth |-> 29, clientHeight |-> 300],
     [clientWidth |-> 1000, clientHeight |-> 100],
     [clientWidth |-> 0, clientHeight |-> 300]}

\* The part of the state the playback methods read and write, as a record.
\* `drew` logs the frame index the running handler drew (Blank: none) and
\* `threw` whether its draw threw.
This ==
    [currentFrame |-> currentFrame, isPlaying |-> isPlaying,
     animationId |-> animationId, hasPlayed |-> hasPlayed,
     hasError |-> hasError, isLoading |-> isLoading, elapsed |-> elapsed,
     pending |-> pending, canvas |-> canvas, drew |-> Blank,
     threw |-> FALSE]

Commit(t) ==
    /\ currentFrame' = t.currentFrame
    /\ isPlaying' = t.isPlaying
    /\ animationId' = t.animationId
    /\ hasPlayed' = t.hasPlayed
    /\ hasError' = t.hasError
    /\ isLoading' = t.isLoading
    /\ elapsed' = t.elapsed
    /\ pending' = t.pending
    /\ canvas' = t.canvas

\* What `last` remembers of the state a handler started from; `threw` tells
\* whether the handler before it ended in a failed draw.
Snapshot ==
    [currentFrame |-> currentFrame, isPlaying |-> isPlaying,
     animationId |-> animationId, hasPlayed |-> hasPlayed,
     hasError |-> hasError, isLoading |-> isLoading, elapsed |-> elapsed,
     pending |-> pending, allLoaded |-> (\A i \in DOMAIN images : images[i]),
     phase |-> phase, images |-> images, loadedCount |-> loadedCount,
     progress |-> progress, batch |-> batch, inflight |-> inflight,
     errorFrame |-> errorFrame, threw |-> last.threw,
     originalWidth |-> originalWidth, originalHeight |-> originalHeight,
     canvas |-> canvas]

Log(op, arg, t) ==
    last' = [op |-> op, arg |-> arg, drew |-> t.drew, threw |-> t.threw,
             pre |-> Snapshot]

\* -------------------------------------------------------- playback methods

\* `this.animationId = requestAnimationFrame(this.animate.bind(this))`.
\* Handles are opaque; the host hands out one that is not registered.
requestAnimationFrame(t) ==
    LET id == CHOOSE k \in 1 .. Cardinality(t.pending) + 1 :
                  /\ k \notin t.pending
                  /\ \A j \in 1 .. k - 1 : j \in t.pending
    IN  [t EXCEPT !.pending = @ \cup {id}, !.animationId = id]

cancelAnimationFrame(t, id) == [t EXCEPT !.pending = @ \ {id}]

\* stop() that clears isPlaying but leaves the callback registered.
stop_keepsCallback(t) == [t EXCEPT !.isPlaying = FALSE]

stop(t) ==
    LET s == [t EXCEPT !.isPlaying = FALSE]
    IN  IF s.animationId # NoId
        THEN cancelAnimationFrame(s, s.animationId)
        ELSE s

\* play() without the hasError guard.
play_ignoresError(t) ==
    IF t.isPlaying \/ t.isLoading
    THEN t
    ELSE requestAnimationFrame(
             [t EXCEPT !.currentFrame = 0, !.hasPlayed = FALSE,
                       !.isPlaying = TRUE, !.elapsed = 0])

\* play() without the isPlaying guard.
play_restarts(t) ==
    IF t.hasError \/ t.isLoading
    THEN t
    ELSE requestAnimationFrame(
             [t EXCEPT !.currentFrame = 0, !.hasPlayed = FALSE,
                       !.isPlaying = TRUE, !.elapsed = 0])

play(t) ==
    IF t.isPlaying \/ t.hasError \/ t.isLoading
    THEN t
    ELSE requestAnimationFrame(
             [t EXCEPT !.currentFrame = 0, !.hasPlayed = FALSE,
                       !.isPlaying = TRUE, !.elapsed = 0])

\* playFromFrame() clamping from above only.
playFromFrame_noLowerClamp(t, startFrame) ==
    IF t.isPlaying \/ t.hasError \/ t.isLoading
    THEN t
    ELSE requestAnimationFrame(
             [t EXCEPT !.currentFrame = Min(startFrame, frameCount - 1),
                       !.hasPlayed = FALSE, !.isPlaying = TRUE, !.elapsed = 0])

playFromFrame(t, startFrame) ==
    IF t.isPlaying \/ t.hasError \/ t.isLoading
    THEN t
    ELSE requestAnimationFrame(
             [t EXCEPT !.currentFrame = Max(0, Min(startFrame, frameCount - 1)),
                       !.hasPlayed = FALSE, !.isPlaying = TRUE, !.elapsed = 0])

\* renderFrame() that advances the index without wrapping at frameCount.
renderFrame_noWrap(t, fail) ==
    LET next == IF ~playOnce \/ ~t.hasPlayed \/ loop
                THEN t.currentFrame + 1
                ELSE t.currentFrame
        a == [t EXCEPT !.currentFrame = next]
    IN  IF next \notin DOMAIN images \/ ~images[next]
        THEN a
        ELSE IF fail
             THEN stop([a EXCEPT !.threw = TRUE])
             ELSE [a EXCEPT !.drew = next]

\* `fail`: drawImage throws.
renderFrame(t, fail) ==
    LET next == IF ~playOnce \/ ~t.hasPlayed \/ loop
                THEN (t.currentFrame + 1) % frameCount
                ELSE t.currentFrame
        a == [t EXCEPT !.currentFrame = next]
    IN  IF ~images[next]
        THEN a
        ELSE IF fail
             THEN stop([a EXCEPT !.threw = TRUE])
             ELSE [a EXCEPT !.drew = next]

\* animate() that takes frameCount, not frameCount - 1, for the last index.
animate_lastIndexOffByOne(t, fail) ==
    IF ~t.isPlaying
    THEN t
    ELSE IF playOnce /\ t.hasPlayed
    THEN stop(t)
    ELSE LET delta == t.elapsed
         IN  IF delta > FrameInterval
             THEN LET r == renderFrame(t, fail)
                      u == [r EXCEPT !.elapsed = delta % FrameInterval]
                  IN  IF u.currentFrame = frameCount
                      THEN LET v == [u EXCEPT !.hasPlayed = TRUE]
                           IN  IF playOnce /\ ~loop
                               THEN stop(v)
                               ELSE requestAnimationFrame(v)
                      ELSE requestAnimationFrame(u)
             ELSE requestAnimationFrame(t)

\* animate() that registers itself again after the last frame of a
\* play-once run.
animate_rearmsAfterLast(t, fail) ==
    IF ~t.isPlaying
    THEN t
    ELSE IF playOnce /\ t.hasPlayed
    THEN stop(t)
    ELSE LET delta == t.elapsed
         IN  IF delta > FrameInterval
             THEN LET r == renderFrame(t, fail)
                      u == [r EXCEPT !.elapsed = delta % FrameInterval]
                  IN  IF u.currentFrame = frameCount - 1
                      THEN requestAnimationFrame([u EXCEPT !.hasPlayed = TRUE])
                      ELSE requestAnimationFrame(u)
             ELSE requestAnimationFrame(t)

animate(t, fail) ==
    IF ~t.isPlaying
    THEN t
    ELSE IF playOnce /\ t.hasPlayed
    THEN stop(t)
    ELSE LET delta == t.elapsed
         IN  IF delta > FrameInterval
             THEN LET r == renderFrame(t, fail)
                      u == [r EXCEPT !.elapsed = delta % FrameInterval]
                  IN  IF u.currentFrame = frameCount - 1
                      THEN LET v == [u EXCEPT !.hasPlayed = TRUE]
                           IN  IF playOnce /\ ~loop
                               THEN stop(v)
                               ELSE requestAnimationFrame(v)
                      ELSE requestAnimationFrame(u)
             ELSE requestAnimationFrame(t)

RECURSIVE IsPow2(_)
IsPow2(n) == n = 1 \/ (n > 1 /\ n % 2 = 0 /\ IsPow2(n \div 2))

RECURSIVE GCD(_, _)
GCD(a, b) == IF b = 0 THEN a ELSE GCD(b, a % b)

\* The double `num / den` is the quotient itself: no rounding happens when
\* the quotient is 0 or a binary fraction.
Exact(num, den) == num = 0 \/ IsPow2(den \div GCD(num, den))

\* `canvas.width = o * (num / den)`: the attribute is an unsigned long, so
\* the assignment drops the fraction of the product.  A product that is a
\* whole number q comes out of the two rounded double operations as q or as
\* a value just below q, which the assignment turns into q - 1.
Pixels(o, num, den) ==
    LET q == (o * num) \div den
    IN  IF (o * num) % den # 0 \/ Exact(num, den) THEN {q} ELSE {q - 1, q}

\* A scale that takes the larger of the two ratios.
scale_max(ow, oh) ==
    IF container.clientWidth * oh >= container.clientHeight * ow
    THEN <<container.clientWidth, ow>>
    ELSE <<container.clientHeight, oh>>

\* `this.scale = Math.min(widthRatio, heightRatio)`, as numerator and
\* denominator of the ratio that is chosen.
scale(ow, oh) ==
    IF container.clientWidth * oh <= container.clientHeight * ow
    THEN <<container.clientWidth, ow>>
    ELSE <<container.clientHeight, oh>>

\* The sizes updateCanvasSize() can give the canvas for an original size of
\* ow by oh.
ScaledSizes(ow, oh) ==
    LET s == scale(ow, oh)
    IN  { [width |-> w, height |-> h] :
              w \in Pixels(ow, s[1], s[2]), h \in Pixels(oh, s[1], s[2]) }

\* updateCanvasSize() assigns canvas.width and canvas.height, which clears
\* the canvas: whatever the handler drew before is gone.
updateCanvasSize(t, size) == [t EXCEPT !.drew = Blank, !.canvas = size]

\* `size`: the outcome of updateCanvasSize(), if it is reached.
handleResize(t, fail, size) ==
    IF originalWidth = 0 \/ originalHeight = 0
    THEN t
    ELSE renderFrame(updateCanvasSize(t, size), fail)

error(t) == [t EXCEPT !.hasError = TRUE]

\* ------------------------------------------------------------------ loading

\* `Math.ceil(this.frameCount / batchSize)`
totalBatches == (frameCount + batchSize - 1) \div batchSize

\* A batch whose end is not cut at (b + 1) * batchSize.
BatchFrames_noEnd(b) ==
    { n \in 1 .. frameCount : n >= b * batchSize + 1 }

\* Frame numbers start .. end of batch b.
BatchFrames(b) ==
    { n \in 1 .. frameCount :
        /\ n >= b * batchSize + 1
        /\ n <= Min((b + 1) * batchSize, frameCount) }

\* The loadFrame() calls of batch b that reach loadImage(): loadFrame returns
\* at once for a slot that already holds an image.
loadFrame(b, imgs) == { n \in BatchFrames(b) : ~imgs[n - 1] }

\* ------------------------------------------------------------ initial state

Init ==
    /\ frameCount \in 1 .. MaxFrames
    /\ loop \in BOOLEAN
    /\ autoplay \in BOOLEAN
    /\ playOnce \in BOOLEAN
    /\ images = [i \in 0 .. frameCount - 1 |-> FALSE]
    /\ currentFrame = 0
    /\ isPlaying = FALSE
    /\ animationId = NoId
    /\ hasError = FALSE
    /\ hasPlayed = FALSE
    /\ loadedCount = 0
    /\ isLoading = FALSE
    /\ originalWidth = 0
    /\ originalHeight = 0
    /\ elapsed = 0
    /\ canvas = CanvasSize0
    /\ container = ContainerSize0
    /\ pending = {}
    /\ phase = "first"
    /\ batch = 0
    /\ inflight = {}
    /\ progress = 0
    /\ failed = {}
    /\ errorCount = 0
    /\ errorFrame = 0
    /\ last = [op |-> "new", arg |-> 0, drew |-> Blank, threw |-> FALSE,
               pre |-> [currentFrame |-> 0, isPlaying |-> FALSE,
                        animationId |-> NoId, hasPlayed |-> FALSE,
                        hasError |-> FALSE, isLoading |-> FALSE,
                        elapsed |-> 0, pending |-> {}, allLoaded |-> FALSE,
                        phase |-> "first",
                        images |-> [i \in 0 .. frameCount - 1 |-> FALSE],
                        loadedCount |-> 0, progress |-> 0, batch |-> 0,
                        inflight |-> {}, errorFrame |-> 0,
                        threw |-> FALSE, originalWidth |-> 0,
                        originalHeight |-> 0, canvas |-> CanvasSize0]]

\* ----------------------------------------------------------------- actions

\* init(): `await this.loadImage(1)` resolves; the rest of init() runs up to
\* the first await inside loadAllFrames().
FirstFrameLoaded ==
    /\ phase = "first"
    /\ originalWidth' = NaturalWidth
    /\ originalHeight' = NaturalHeight
    /\ \E size \in ScaledSizes(NaturalWidth, NaturalHeight) :
           Commit([updateCanvasSize(This, size) EXCEPT !.isLoading = TRUE])
    /\ phase' = "batches"
    /\ batch' = 0
    /\ inflight' = loadFrame(0, images)
    /\ Log("firstLoaded", 1, This)
    /\ UNCHANGED <<cfg, container, images, loadedCount, progress, failed,
                   errorCount, errorFrame>>

\* init(): `await this.loadImage(1)` rejects; the catch calls error().
FirstFrameFailed ==
    /\ phase = "first"
    /\ Commit(error(This))
    /\ failed' = failed \cup {1}
    /\ errorCount' = errorCount + 1
    /\ errorFrame' = 1
    /\ phase' = "failed"
    /\ Log("firstFailed", 1, This)
    /\ UNCHANGED <<cfg, container, images, loadedCount, originalWidth,
                   originalHeight, batch, inflight, progress>>

\* A load that reports the batch as complete as soon as any of its frames
\* has loaded.
FrameLoaded_reportsEarly(n) ==
    /\ n \in inflight
    /\ images' = [images EXCEPT ![n - 1] = TRUE]
    /\ loadedCount' = loadedCount + 1
    /\ IF phase = "batches" /\ inflight = {n}
       THEN /\ progress' = batch + 1
            /\ IF batch + 1 < totalBatches
               THEN /\ batch' = batch + 1
                    /\ inflight' = loadFrame(batch + 1, images')
                    /\ phase' = phase
                    /\ Commit(This)
               ELSE /\ batch' = batch + 1
                    /\ inflight' = {}
                    /\ phase' = "loaded"
                    /\ LET t == [This EXCEPT !.isLoading = FALSE]
                       IN  Commit(IF autoplay THEN play(t) ELSE t)
       ELSE /\ inflight' = inflight \ {n}
            /\ progress' = IF phase = "batches" THEN batch + 1 ELSE progress
            /\ Commit(This)
            /\ UNCHANGED <<phase, batch>>
    /\ Log("frameLoaded", n, This)
    /\ UNCHANGED <<cfg, container, originalWidth, originalHeight, failed,
                   errorCount, errorFrame>>

\* An image of the current batch loads: loadFrame() stores it.  When it is
\* the last of its batch, loadAllFrames() reports progress and starts the
\* next batch, or returns to init(), which clears isLoading and autoplays.
FrameLoaded(n) ==
    /\ n \in inflight
    /\ images' = [images EXCEPT ![n - 1] = TRUE]
    /\ loadedCount' = loadedCount + 1
    /\ IF phase = "batches" /\ inflight = {n}
       THEN /\ progress' = batch + 1
            /\ IF batch + 1 < totalBatches
               THEN /\ batch' = batch + 1
                    /\ inflight' = loadFrame(batch + 1, images')
                    /\ phase' = phase
                    /\ Commit(This)
               ELSE /\ batch' = batch + 1
                    /\ inflight' = {}
                    /\ phase' = "loaded"
                    /\ LET t == [This EXCEPT !.isLoading = FALSE]
                       IN  Commit(IF autoplay THEN play(t) ELSE t)
       ELSE /\ inflight' = inflight \ {n}
            /\ Commit(This)
            /\ UNCHANGED <<phase, batch, progress>>
    /\ Log("frameLoaded", n, This)
    /\ UNCHANGED <<cfg, container, originalWidth, originalHeight, failed,
                   errorCount, errorFrame>>

\* A failing load that reports an error each time, also after init() has
\* already been abandoned.
FrameFailed_reportsEach(n) ==
    /\ n \in inflight
    /\ inflight' = inflight \ {n}
    /\ failed' = failed \cup {n}
    /\ phase' = "failed"
    /\ Commit(error(This))
    /\ errorCount' = errorCount + 1
    /\ errorFrame' = n
    /\ Log("frameFailed", n, This)
    /\ UNCHANGED <<cfg, container, images, loadedCount, originalWidth,
                   originalHeight, batch, progress>>

\* An image of the current batch fails: Promise.all rejects, loadAllFrames()
\* and init()'s try block are abandoned and the catch calls error().  The
\* other loads of the batch stay in flight; a later rejection is ignored.
FrameFailed(n) ==
    /\ n \in inflight
    /\ inflight' = inflight \ {n}
    /\ failed' = failed \cup {n}
    /\ IF phase = "batches"
       THEN /\ phase' = "failed"
            /\ Commit(error(This))
            /\ errorCount' = errorCount + 1
            /\ errorFrame' = n
       ELSE /\ phase' = phase
            /\ Commit(This)
            /\ UNCHANGED <<errorCount, errorFrame>>
    /\ Log("frameFailed", n, This)
    /\ UNCHANGED <<cfg, container, images, loadedCount, originalWidth,
                   originalHeight, batch, progress>>

Frame == <<images, loadedCount, originalWidth, originalHeight, phase, batch,
           inflight, progress, failed, errorCount, errorFrame>>

Play ==
    /\ Commit(play(This))
    /\ Log("play", 0, This)
    /\ UNCHANGED <<cfg, container, Frame>>

PlayFromFrame(startFrame) ==
    /\ Commit(playFromFrame(This, startFrame))
    /\ Log("playFromFrame", startFrame, This)
    /\ UNCHANGED <<cfg, container, Frame>>

Stop ==
    /\ Commit(stop(This))
    /\ Log("stop", 0, This)
    /\ UNCHANGED <<cfg, container, Frame>>

\* The click handler of initAll().
Click ==
    /\ Commit(playFromFrame(IF isPlaying THEN stop(This) ELSE This,
                            ClickStartFrame))
    /\ Log("click", ClickStartFrame, This)
    /\ UNCHANGED <<cfg, container, Frame>>

\* Whether a draw may throw in this step.
Fails == IF Cardinality(pending) < MaxPending THEN BOOLEAN ELSE {FALSE}

\* The resize observer (or the window's resize event) calls handleResize().
Resize(fail) ==
    \E size \in IF originalWidth = 0 \/ originalHeight = 0
                 THEN {canvas}
                 ELSE ScaledSizes(originalWidth, originalHeight) :
        LET t == handleResize(This, fail, size)
        IN  /\ Commit(t)
            /\ Log("resize", 0, t)
            /\ UNCHANGED <<cfg, container, Frame>>

\* The layout gives the container another client size.  The resize
\* notification, if any, is a later step.
ContainerResized(size) ==
    /\ size # container
    /\ container' = size
    /\ Commit(This)
    /\ Log("layout", 0, This)
    /\ UNCHANGED <<cfg, Frame>>

\* The host runs the registered callback id: animate(timestamp).
Tick(id, fail) ==
    /\ id \in pending
    /\ LET t == animate([This EXCEPT !.pending = @ \ {id}], fail)
       IN  /\ Commit(t)
           /\ Log("tick", 0, t)
    /\ UNCHANGED <<cfg, container, Frame>>

\* One unit of time passes.  lastTime is read only while playing.
TimePasses ==
    /\ isPlaying
    /\ elapsed < MaxDelta
    /\ elapsed' = elapsed + 1
    /\ Log("time", 0, This)
    /\ UNCHANGED <<cfg, container, Frame, currentFrame, isPlaying,
                   animationId, hasError, hasPlayed, isLoading, pending,
                   canvas>>

Next ==
    \/ FirstFrameLoaded
    \/ FirstFrameFailed
    \/ \E n \in 1 .. MaxFrames : FrameLoaded(n)
    \/ \E n \in 1 .. MaxFrames : FrameFailed(n)
    \/ Play
    \/ \E s \in StartFrames : PlayFromFrame(s)
    \/ Stop
    \/ Click
    \/ \E fail \in BOOLEAN : Resize(fail)
    \/ \E id \in pending, fail \in Fails : Tick(id, fail)
    \/ TimePasses

Spec == Init /\ [][Next]_vars

\* ------------------------------------------------------------- properties

\* The handler that ran last was play() or playFromFrame().
PlayCalled == last.op \in {"play", "playFromFrame"}

\* The handler that ran last left the scheduler as it found it.
SamePlayback ==
    /\ isPlaying = last.pre.isPlaying
    /\ currentFrame = last.pre.currentFrame
    /\ hasPlayed = last.pre.hasPlayed
    /\ elapsed = last.pre.elapsed
    /\ pending = last.pre.pending
    /\ animationId = last.pre.animationId

\* C1: play() and playFromFrame() called while a slot is still empty and
\* loading has not finished (the first-frame load included) leave the
\* scheduler not playing, the index unchanged and no callback registered.
C1_PlayIsNoOpWhileLoading ==
    (PlayCalled /\ ~last.pre.allLoaded /\ last.pre.phase \in {"first", "batches"})
        => /\ ~isPlaying
           /\ currentFrame = last.pre.currentFrame
           /\ pending = last.pre.pending

\* C2: once a frame load has failed the error flag stays set, a later load
\* event never starts playback (no autoplay), and play() and playFromFrame()
\* leave the scheduler, the index and the registered callbacks as they were.
C2_ErrorIsPermanent ==
    /\ phase = "failed" => hasError
    /\ last.pre.hasError => hasError
    /\ (last.pre.hasError /\ PlayCalled) => SamePlayback
    /\ (last.pre.hasError /\ last.op \in {"frameLoaded", "frameFailed"})
           => SamePlayback

\* C2 witness: play() on a stopped session whose first frame failed to load,
\* where only the error flag stands in the way.
C2_Witness ==
    /\ PlayCalled
    /\ last.pre.hasError
    /\ ~last.pre.isLoading
    /\ ~last.pre.isPlaying

\* C3: play() and playFromFrame() called while playing change nothing: the
\* index, the time since lastTime, hasPlayed and the registered callbacks
\* are as before.
C3_PlayWhilePlayingIsNoOp ==
    (PlayCalled /\ last.pre.isPlaying) => SamePlayback

\* C3 witness: play() arrives in the middle of a run.
C3_Witness ==
    /\ last.op = "play"
    /\ last.pre.isPlaying
    /\ phase = "loaded"
    /\ currentFrame > 0
    /\ elapsed > 0

\* playOnce = true and loop = false.
OnceOnly == playOnce /\ ~loop

\* The handler that ran last called play() or playFromFrame(): directly, from
\* the click handler, or as init()'s autoplay when the last batch completed.
PlayReached ==
    \/ PlayCalled
    \/ last.op = "click"
    \/ /\ last.op = "frameLoaded"
       /\ autoplay
       /\ last.pre.phase = "batches"
       /\ phase = "loaded"

C4_WitnessLastFrame ==
    /\ OnceOnly
    /\ frameCount > 1
    /\ last.op = "tick"
    /\ last.drew = frameCount - 1
    /\ last.pre.currentFrame = frameCount - 2

\* C5: with loop = true, whatever playOnce is, a clock tick that finds the
\* scheduler playing (all frames loaded) and whose draw does not throw leaves
\* it playing.
C5_LoopNeverStopsByItself ==
    (/\ loop
     /\ phase = "loaded"
     /\ last.op = "tick"
     /\ last.pre.isPlaying
     /\ ~last.threw)
        => isPlaying

\* C6: a clock tick that draws a frame (all frames loaded) draws the frame at
\* the index that currentFrame held before the tick; so the first frame
\* drawn after play() is frame 0.
C6_TickDrawsFrameBeforeAdvancing ==
    (phase = "loaded" /\ last.op = "tick" /\ last.drew # Blank)
        => last.drew = last.pre.currentFrame

\* C7: at most one animation-frame callback is registered at any time.
C7_AtMostOneTickPending == Cardinality(pending) <= 1

\* C8: stop() called while playing cancels the callback registered under
\* animationId and leaves the scheduler not playing with the index where it
\* was; stop() called while not playing leaves the scheduler not playing and
\* the index, hasPlayed and the time since lastTime as they were, and
\* registers nothing.
C8_Stop ==
    last.op = "stop" =>
        /\ ~isPlaying
        /\ currentFrame = last.pre.currentFrame
        /\ hasPlayed = last.pre.hasPlayed
        /\ elapsed = last.pre.elapsed
        /\ IF last.pre.isPlaying
           THEN /\ last.pre.animationId \in last.pre.pending
                /\ pending = last.pre.pending \ {last.pre.animationId}
           ELSE pending \subseteq last.pre.pending

\* C8 witness: stop() in the middle of a run.
C8_Witness ==
    /\ last.op = "stop"
    /\ last.pre.isPlaying
    /\ phase = "loaded"
    /\ currentFrame > 0
    /\ pending = {}

\* C9: the resize handler leaves currentFrame, hasPlayed and isPlaying as it
\* found them.
C9_ResizeKeepsPlayback ==
    last.op = "resize" =>
        /\ currentFrame = last.pre.currentFrame
        /\ hasPlayed = last.pre.hasPlayed
        /\ isPlaying = last.pre.isPlaying

\* clamp(x, 0, frameCount - 1), written out case by case.
Clamp(x) ==
    IF x < 0 THEN 0 ELSE IF x > frameCount - 1 THEN frameCount - 1 ELSE x

\* The scheduler would accept play(): not playing, no error, not loading.
WasPlayable ==
    /\ ~last.pre.isPlaying
    /\ ~last.pre.hasError
    /\ ~last.pre.isLoading

\* C10: playFromFrame(s) accepted by the guard sets currentFrame to
\* clamp(s, 0, frameCount - 1), clears hasPlayed, starts playing, restarts
\* the frame timer and registers exactly one new callback.
C10_PlayFromFrameClamps ==
    (last.op = "playFromFrame" /\ WasPlayable)
        => /\ currentFrame = Clamp(last.arg)
           /\ ~hasPlayed
           /\ isPlaying
           /\ elapsed = 0
           /\ animationId \notin last.pre.pending
           /\ pending = last.pre.pending \cup {animationId}

\* C10 witness: a start index above the range lands on the last frame.
C10_Witness ==
    /\ last.op = "playFromFrame"
    /\ WasPlayable
    /\ phase = "loaded"
    /\ frameCount > 1
    /\ last.arg > frameCount - 1
    /\ currentFrame = frameCount - 1

\* C11: a clock tick that finds the scheduler playing (all frames loaded),
\* with d the time since
\* lastTime: if d < FrameInterval it leaves the index and lastTime alone and
\* draws nothing; if d >= FrameInterval (d = FrameInterval included) it
\* advances the index by one modulo frameCount and sets lastTime to the
\* current time minus d mod FrameInterval.
C11_TickByElapsed ==
    (phase = "loaded" /\ last.op = "tick" /\ last.pre.isPlaying) =>
        IF last.pre.elapsed < FrameInterval
        THEN /\ currentFrame = last.pre.currentFrame
             /\ elapsed = last.pre.elapsed
             /\ last.drew = Blank
        ELSE /\ currentFrame = (last.pre.currentFrame + 1) % frameCount
             /\ elapsed = last.pre.elapsed % FrameInterval

\* Every slot holds an image.
AllLoaded == \A i \in DOMAIN images : images[i]

\* init() has returned and no image load is outstanding.
Settled == phase \in {"loaded", "failed"} /\ inflight = {}

\* An image load settles: its onload or onerror handler runs.
LoadEvent ==
    \/ FirstFrameLoaded
    \/ FirstFrameFailed
    \/ \E n \in 1 .. MaxFrames : FrameLoaded(n)
    \/ \E n \in 1 .. MaxFrames : FrameFailed(n)

\* An animator with the default `loop` and `playOnce` options, which the
\* loading code never reads.
LoadInit == Init /\ loop /\ ~playOnce

\* loadFrame() that counts a slot again when the slot is already loaded.
LoadFrame_countsAgain(n) ==
    /\ n \in 1 .. frameCount
    /\ images[n - 1]
    /\ loadedCount' = loadedCount + 1
    /\ Commit(This)
    /\ Log("loadFrame", n, This)
    /\ UNCHANGED <<cfg, container, images, originalWidth, originalHeight,
                   phase, batch, inflight, progress, failed, errorCount,
                   errorFrame>>

\* loadFrame(n) is called for a slot that holds an image: it returns at
\* once.  (The batches never ask for such a slot, and a call from outside for
\* an empty slot is not followed.)
LoadFrame(n) ==
    /\ n \in 1 .. frameCount
    /\ images[n - 1]
    /\ Commit(This)
    /\ Log("loadFrame", n, This)
    /\ UNCHANGED <<cfg, container, Frame>>

LoadNext == Next \/ \E n \in 1 .. MaxFrames : LoadFrame(n)

\* Every image load that was started settles.
LoadSpec == LoadInit /\ [][LoadNext]_vars /\ WF_vars(LoadEvent)

\* The two outcomes of loading, and what holds on the way to them.
LoadOutcome ==
    /\ phase = "loaded" => (AllLoaded /\ ~hasError /\ errorCount = 0)
    /\ phase = "failed" =>
          (~AllLoaded /\ hasError /\ errorCount = 1 /\ errorFrame \in failed)
    /\ phase \in {"first", "batches"} => (~hasError /\ errorCount = 0)
    /\ phase = "batches" => inflight # {}
    /\ last.pre.phase = "failed" =>
          /\ phase = "failed"
          /\ batch = last.pre.batch
          /\ inflight \subseteq last.pre.inflight

\* C12 as stated: loading ends with every slot loaded and no error, or with
\* one error that names the lowest-numbered frame that failed, and no batch
\* is started after the failure.
C12_ErrorNamesLowestFailedFrame ==
    /\ LoadOutcome
    /\ phase = "failed" => \A f \in failed : errorFrame <= f

\* C12 as amended: loading settles, with every slot loaded and no error, or
\* with one error that names the frame whose load failed first in time, and
\* no batch is started after the failure.
C12_LoadingSettles ==
    /\ [](/\ LoadOutcome
          /\ (last.op \in {"firstFailed", "frameFailed"}
                 /\ last.pre.phase # "failed") => errorFrame = last.arg
          /\ last.pre.phase = "failed" => errorFrame = last.pre.errorFrame)
    /\ <>[]Settled

\* C12 witness: two frames of one batch failed, the higher-numbered first.
C12_Witness ==
    /\ Settled
    /\ phase = "failed"
    /\ Cardinality(failed) = 2
    /\ \E f \in failed : f < errorFrame

\* C13: the reported progress never decreases; each report is the number of
\* completed batches out of totalBatches; the full value is reported only
\* with every slot loaded, and never after a load failure.
C13_ProgressMonotone ==
    /\ progress \in 0 .. totalBatches
    /\ progress >= last.pre.progress
    /\ progress # last.pre.progress =>
          /\ last.op = "frameLoaded"
          /\ last.pre.phase = "batches"
          /\ failed = {}
          /\ progress = last.pre.progress + 1
          /\ progress = last.pre.batch + 1
          /\ \A b \in 0 .. progress - 1 : \A n \in BatchFrames(b) : images[n - 1]
    /\ progress = totalBatches => (AllLoaded /\ failed = {})
    /\ (phase = "loaded" /\ failed = {}) => progress = totalBatches

\* C13 witness: the second of two batches completes and the full value is
\* reported.
C13_Witness ==
    /\ last.op = "frameLoaded"
    /\ last.pre.progress = 1
    /\ progress = 2
    /\ totalBatches = 2

\* Number of image loads that were started and have not settled; in phase
\* "first" it is init()'s load of frame 1.
InFlight == IF phase = "first" THEN 1 ELSE Cardinality(inflight)

C15_DrawFailureIsRecoverable ==
    /\ (phase = "loaded" /\ last.threw) => (~isPlaying /\ ~hasError)
    /\ (phase = "loaded" /\ last.pre.threw
           /\ last.op \in {"play", "playFromFrame"}) =>
          (isPlaying /\ ~hasError /\ Cardinality(pending) = 1)

\* C16: in every reachable state currentFrame is an index of the frame set,
\* 0 .. frameCount - 1.
C16_CurrentFrameInRange == currentFrame \in 0 .. frameCount - 1

\* C16 witness: a tick on the last frame wraps the index to 0.
C16_Witness ==
    /\ last.op = "tick"
    /\ frameCount > 1
    /\ last.pre.currentFrame = frameCount - 1
    /\ currentFrame = 0

\* The session of the size scenarios: one frame, default `loop` and
\* `playOnce`.
SizeInit == Init /\ frameCount = 1 /\ loop /\ ~playOnce

SizeNext == Next \/ \E size \in ContainerSizes : ContainerResized(size)

\* The animator in a container whose client size changes.
SizeSpec == SizeInit /\ [][SizeNext]_vars

\* The last handler gave the canvas a size: handleResize() with the original
\* size known, or init() after the first frame.
Resized ==
    \/ last.op = "firstLoaded"
    \/ /\ last.op = "resize"
       /\ last.pre.originalWidth # 0
       /\ last.pre.originalHeight # 0

\* The scale s = min(containerWidth / originalWidth, containerHeight /
\* originalHeight) as a fraction.
WidthLimits ==
    container.clientWidth * originalHeight
        <= container.clientHeight * originalWidth

ScaleNum ==
    IF WidthLimits THEN container.clientWidth ELSE container.clientHeight

ScaleDen == IF WidthLimits THEN originalWidth ELSE originalHeight

\* originalWidth and originalHeight are set once, from the first frame, and
\* a resize before that changes nothing.
OriginalSizeSetOnce ==
    /\ phase = "first" => (originalWidth = 0 /\ originalHeight = 0)
    /\ phase \in {"batches", "loaded"} =>
          (originalWidth = NaturalWidth /\ originalHeight = NaturalHeight)
    /\ last.pre.originalWidth # 0 =>
          /\ originalWidth = last.pre.originalWidth
          /\ originalHeight = last.pre.originalHeight
    /\ originalWidth # last.pre.originalWidth => last.op = "firstLoaded"
    /\ canvas # last.pre.canvas => Resized
    /\ (last.op = "resize" /\ last.pre.originalWidth = 0) =>
          /\ canvas = last.pre.canvas
          /\ last.drew = Blank
          /\ currentFrame = last.pre.currentFrame
          /\ isPlaying = last.pre.isPlaying
          /\ pending = last.pre.pending

\* C17 as stated: every resize sets the canvas to (originalWidth * s,
\* originalHeight * s), which keeps the aspect ratio of the original and
\* fits the container; the original size is set once, and a resize before
\* that changes nothing.
C17_SurfaceIsScaledOriginal ==
    /\ OriginalSizeSetOnce
    /\ Resized =>
          /\ canvas.width * ScaleDen = originalWidth * ScaleNum
          /\ canvas.height * ScaleDen = originalHeight * ScaleNum
          /\ canvas.width * originalHeight = canvas.height * originalWidth
          /\ canvas.width <= container.clientWidth
          /\ canvas.height <= container.clientHeight

\* w is the whole-pixel part of o * s, or one less where o * s is whole.
WholePixels(w, o) ==
    /\ w >= 0
    /\ w * ScaleDen <= o * ScaleNum
    /\ o * ScaleNum <= (w + 1) * ScaleDen
    /\ (o * ScaleNum) % ScaleDen # 0 => o * ScaleNum < (w + 1) * ScaleDen

\* C17 as amended: every resize sets each side of the canvas to the
\* whole-pixel part of the scaled original side (one pixel less at most
\* where that side is a whole number), so the canvas fits the container,
\* reaches it in one direction to within a pixel and keeps the aspect ratio
\* of the original to within a pixel; original 800x400 in a container of
\* 400x300 gives 400x200; the original size is set once, and a resize
\* before that changes nothing.
C17_SurfaceIsScaledToWholePixels ==
    /\ OriginalSizeSetOnce
    /\ Resized =>
          /\ WholePixels(canvas.width, originalWidth)
          /\ WholePixels(canvas.height, originalHeight)
          /\ canvas.width <= container.clientWidth
          /\ canvas.height <= container.clientHeight
          /\ \/ canvas.width + 1 >= container.clientWidth
             \/ canvas.height + 1 >= container.clientHeight
          /\ canvas.width * originalHeight - canvas.height * originalWidth
                \in -originalHeight .. originalWidth
          /\ (originalWidth = 800 /\ originalHeight = 400
                /\ container.clientWidth = 400
                /\ container.clientHeight = 300) =>
                (canvas.width = 400 /\ canvas.height = 200)

\* C17 witness: a resize in a container of 401x300 has cut the height of
\* 200.5 down to 200.
C17_Witness ==
    /\ last.op = "resize"
    /\ container.clientWidth = 401
    /\ originalWidth = 800
    /\ canvas.height = 200
    /\ canvas.width \in {400, 401}

\* Number of slots that hold an image.
LoadedSlots == Cardinality({i \in DOMAIN images : images[i]})

\* C18: loadedCount is the number of loaded slots; it never decreases; a
\* loaded slot stays loaded, also after a load failure; and loadFrame() for
\* a loaded slot changes neither the slots nor the counter, and starts no
\* load.
C18_LoadedCountIsLoadedSlots ==
    /\ loadedCount = LoadedSlots
    /\ loadedCount >= last.pre.loadedCount
    /\ \A i \in DOMAIN images : last.pre.images[i] => images[i]
    /\ loadedCount # last.pre.loadedCount =>
          /\ last.op = "frameLoaded"
          /\ loadedCount = last.pre.loadedCount + 1
          /\ ~last.pre.images[last.arg - 1]
          /\ images[last.arg - 1]
    /\ last.op = "loadFrame" =>
          /\ last.pre.images[last.arg - 1]
          /\ images = last.pre.images
          /\ loadedCount = last.pre.loadedCount
          /\ inflight = last.pre.inflight

\* C18 witness: loadFrame() was called for a loaded slot after another load
\* of the batch had failed.
C18_Witness ==
    /\ last.op = "loadFrame"
    /\ phase = "failed"
    /\ failed # {}
    /\ loadedCount = 1

\* C19: the animator is never playing while hasError or isLoading is set.
C19_NeverPlayingWithErrorOrLoading ==
    ~(isPlaying /\ (hasError \/ isLoading))

\* The host runs one of the registered callbacks.
TickFires == \E id \in pending, fail \in Fails : Tick(id, fail)

\* A play-once animator whose runs are started by play(), playFromFrame()
\* and the click handler: playOnce = true, loop = false, autoplay = false.
RunInit == Init /\ playOnce /\ ~loop /\ ~autoplay

\* The host keeps running registered callbacks, and time keeps advancing.
RunSpec ==
    RunInit /\ [][Next]_vars /\ WF_vars(TickFires) /\ WF_vars(TimePasses)

\* C20: with playOnce and not loop, once no operation other than ticks and
\* the passing of time intervenes any more, playback ends up stopped for
\* good with no tick registered, whatever run was in progress.
C20_PlayOnceRunEnds ==
    <>[][TickFires \/ TimePasses]_vars => <>[](~isPlaying /\ pending = {})

\* C20 witness: the tick that rendered the last frame of a play-once run
\* has stopped playback and left no tick registered.
C20_Witness ==
    /\ playOnce /\ ~loop
    /\ frameCount > 1
    /\ last.op = "tick"
    /\ last.pre.isPlaying
    /\ last.pre.currentFrame = frameCount - 2
    /\ currentFrame = frameCount - 1
    /\ hasPlayed
    /\ ~isPlaying
    /\ pending = {}

====
